---- MODULE Spec2Model ----
(***************************************************************************)
(* Model of app.py: the /whatsapp webhook handler (incoming_whatsapp), the *)
(* /images/<filename> endpoint (serve_image) and the atexit hook           *)
(* (cleanup_generated_images).                                             *)
(*                                                                         *)
(* Strings are sequences of segments (a segment is a character or a fixed  *)
(* literal of the source), so that f-strings are concatenations.  Byte     *)
(* payloads are records [fmt, img]; decoding and PNG encoding are separate *)
(* operators.  Every handler thread has its own locals; the working        *)
(* directory (files) and the dict generated_images are shared.             *)
(***************************************************************************)
EXTENDS Naturals, Sequences, FiniteSets

\* ------------------------------------------------------------------ bounds
\* Handler threads of the WSGI server that may run at the same time.
NumWorkers == 2
\* Longest parts list a generation response carries.
MaxParts == 2

Workers == 1..NumWorkers

\* ------------------------------------------------------------- vocabulary
\* An optional value is a set: None, or Some(v) holding the one value.
None == {}
Some(v) == {v}
The(o) == CHOOSE v \in o : TRUE

\* Form field Body: missing, empty, whitespace only, padded, with a space
\* inside.
Bodies ==
    { None, Some(<<>>), Some(<<" ">>), Some(<<" ", "\n">>),
      Some(<<" ", "c", "a", "t", "\t">>), Some(<<"a", " ", "b">>) }

Senders == { <<"whatsapp:", "+15551234567">>, <<"whatsapp:", "+15557654321">> }

\* uuid4().hex[:8]: eight hex digits; two of the 16^8 values stand for all.
Tokens == { "1a2b3c4d", "9f8e7d6c" }

\* Byte payloads.  EmptyBytes is b"", Garbage is bytes PIL cannot identify,
\* Truncated is what a save that raised midway may leave in the file.
EmptyBytes == [fmt |-> "empty", img |-> "none"]
Garbage == [fmt |-> "garbage", img |-> "none"]
PngA == [fmt |-> "png", img |-> "A"]
JpgB == [fmt |-> "jpg", img |-> "B"]
Truncated == [fmt |-> "truncated", img |-> "none"]
Payloads == { EmptyBytes, Garbage, PngA, JpgB }

\* Texts of text parts; the empty string is a text too (it is not None).
Texts == { <<>>, <<"h", "i">>, <<"y", "o">> }

\* A part of the response: text and inline_data are each None or present.
PartValues ==
    { [text |-> Some(t), inline_data |-> None] : t \in Texts }
    \cup { [text |-> None, inline_data |-> Some([data |-> d])] : d \in Payloads }
    \cup { [text |-> None, inline_data |-> None],
           [text |-> Some(<<"h", "i">>), inline_data |-> Some([data |-> PngA])] }

PartSeqs == UNION { [1..n -> PartValues] : n \in 0..MaxParts }

\* What generate_content hands back when it does not raise: a response whose
\* candidates[0].content.parts is a list, or one where that path cannot be
\* walked (no candidates, or parts is None).
Responses ==
    { [shape |-> "parts", parts |-> ps] : ps \in PartSeqs }
    \cup { [shape |-> "no_candidates", parts |-> <<>>],
           [shape |-> "parts_none", parts |-> <<>>] }

\* ---------------------------------------------------------- fixed literals
\* The message texts of the source, without their leading emoji.
NgrokUrl == <<"https://4e8be9ba5910.ngrok-free.app">>
TwilioFrom == <<"whatsapp:", "+14155238886">>
MsgSuccess == <<"Your image has been generated and is on its way!">>
MsgNoImagePrefix == <<"No image generated, but here's the response:", "\n">>
MsgCouldNot == <<"Sorry, I couldn't generate an image from that prompt. Please try something else!">>
MsgError == <<"Sorry, an error occurred while processing your request. Please try again.">>
CaptionPrefix == <<"Here's your generated image for: '">>
CaptionSuffix == <<"'">>

\* ------------------------------------------------------------------ files
GenName(tok) == <<"generated_", tok, ".png">>
AppPy == <<"app", ".py">>
\* A generated file a previous run of the process left behind.
LeftoverName == GenName("0ld0ld00")
\* A generated-looking name nothing ever writes.
AbsentName == GenName("ffffffff")
SourceBytes == [fmt |-> "python", img |-> "none"]

FetchNames == { GenName(t) : t \in Tokens } \cup { AppPy, LeftoverName, AbsentName }

\* glob.glob("generated_*.png") on a name of the working directory.
MatchesPattern(name) ==
    /\ Len(name) >= 2
    /\ name[1] = "generated_"
    /\ name[Len(name)] = ".png"

\* ----------------------------------------------------------- pure helpers
Whitespace == { " ", "\t", "\n", "\r" }

RECURSIVE LStrip(_)
LStrip(s) ==
    IF s # <<>> /\ Head(s) \in Whitespace THEN LStrip(Tail(s)) ELSE s

RECURSIVE RStrip(_)
RStrip(s) ==
    IF s # <<>> /\ s[Len(s)] \in Whitespace
    THEN RStrip(SubSeq(s, 1, Len(s) - 1))
    ELSE s

\* Mutant of Strip: the body is used as it came.
NoStrip(s) == s

\* str.strip()
Strip(s) == RStrip(LStrip(s))

\* request.form.get('Body', '')
FormGetBody(body) == IF body = None THEN <<>> ELSE The(body)

\* Mutant of ParseStep: an image already captured is kept.
ParseStepKeepFirst(acc, part) ==
    IF part.text # None
    THEN [acc EXCEPT !.response_text = @ \o The(part.text) \o <<"\n">>]
    ELSE IF part.inline_data # None /\ acc.image_data = None
         THEN [acc EXCEPT !.image_data = Some(The(part.inline_data).data)]
         ELSE acc

\* One iteration of the loop over the parts.
ParseStep(acc, part) ==
    IF part.text # None
    THEN [acc EXCEPT !.response_text = @ \o The(part.text) \o <<"\n">>]
    ELSE IF part.inline_data # None
         THEN [acc EXCEPT !.image_data = Some(The(part.inline_data).data)]
         ELSE acc

RECURSIVE ParseFrom(_, _, _)
ParseFrom(acc, parts, i) ==
    IF i > Len(parts) THEN acc
    ELSE ParseFrom(ParseStep(acc, parts[i]), parts, i + 1)

\* image_data = None; response_text = ""; for part in ...parts: ...
ParseParts(parts) ==
    ParseFrom([image_data |-> None, response_text |-> <<>>], parts, 1)

\* if image_data: (None and b"" are falsy)
Truthy(data) == data # None /\ data # Some(EmptyBytes)

\* Image.open(BytesIO(image_data)) identifies the image or raises.
CanDecode(data) == data.fmt \in { "png", "jpg" }
Decode(data) == data.img
\* image.save("....png") writes the picture PNG-encoded.
EncodePng(img) == [fmt |-> "png", img |-> img]

ImageUrl(filename) == NgrokUrl \o <<"/images/">> \o filename
Caption(msg) == CaptionPrefix \o msg \o CaptionSuffix

\* ------------------------------------------------------------------ state
VARIABLES
    files,              \* working directory: file name -> bytes
    generated_images,   \* the module-level dict: file name -> TRUE
    phase,              \* "serving", "cleanup" (atexit hook running), "exited"
    glob_list,          \* names glob returned that the hook has yet to visit
    removed,            \* names the hook has deleted
    cleanup_error,      \* the name whose removal raised (logged), if any
    pc,                 \* per thread: where its handler stands
    route,              \* per thread: the endpoint it is serving
    form_body,          \* per thread: request.form's Body field, if any
    incoming_msg, from_number, response, image_data, response_text,
    image_filename,     \* per thread: locals of incoming_whatsapp
    filename,           \* per thread: the argument of serve_image
    reply,              \* per thread: what the handler returned
    gemini_calls,       \* per thread: generate_content calls of this request
    twilio_calls,       \* per thread: messages.create calls of this request
    saved,              \* per thread: files this request wrote
    registered          \* per thread: names this request put in the dict

locals == <<form_body, incoming_msg, from_number, response, image_data, response_text,
            image_filename, filename>>
effects == <<gemini_calls, twilio_calls, saved, registered>>
cleanup == <<phase, glob_list, removed, cleanup_error>>
vars == <<files, generated_images, cleanup, pc, route, locals, reply, effects>>

\* Values of a local that is not bound, and of a reply not yet returned.
NoResponse == [shape |-> "unset", parts |-> <<>>]
NoReply == [kind |-> "none", status |-> 0, messages |-> <<>>, data |-> None]
\* str(MessagingResponse()) with the messages added to it.
Twiml(messages) == [kind |-> "twiml", status |-> 200, messages |-> messages, data |-> None]

BaseFiles == [n \in {AppPy} |-> SourceBytes]
WithLeftover == [n \in {AppPy, LeftoverName} |-> IF n = AppPy THEN SourceBytes ELSE PngA]

Init ==
    /\ files \in { BaseFiles, WithLeftover }
    /\ generated_images = << >>
    /\ phase = "serving"
    /\ glob_list = {}
    /\ removed = {}
    /\ cleanup_error = None
    /\ pc = [w \in Workers |-> "idle"]
    /\ route = [w \in Workers |-> "none"]
    /\ form_body = [w \in Workers |-> None]
    /\ incoming_msg = [w \in Workers |-> <<>>]
    /\ from_number = [w \in Workers |-> <<>>]
    /\ response = [w \in Workers |-> NoResponse]
    /\ image_data = [w \in Workers |-> None]
    /\ response_text = [w \in Workers |-> <<>>]
    /\ image_filename = [w \in Workers |-> <<>>]
    /\ filename = [w \in Workers |-> <<>>]
    /\ reply = [w \in Workers |-> NoReply]
    /\ gemini_calls = [w \in Workers |-> 0]
    /\ twilio_calls = [w \in Workers |-> <<>>]
    /\ saved = [w \in Workers |-> <<>>]
    /\ registered = [w \in Workers |-> {}]

\* ------------------------------------------------------------ incoming_whatsapp
\* The dict after generated_images[name] = True.
DictSet(d, name) == [n \in DOMAIN d \cup {name} |-> IF n = name THEN TRUE ELSE d[n]]
\* The directory after a whole-file write of data under name.
WriteFile(fs, name, data) ==
    [n \in DOMAIN fs \cup {name} |-> IF n = name THEN data ELSE fs[n]]
\* The directory after os.remove(name).
RemoveFile(fs, name) == [n \in DOMAIN fs \ {name} |-> fs[n]]

\* Mutant of ErrorReply: the handler forgets to add the message.
ErrorReplyEmpty == Twiml(<<>>)

\* except Exception: log, one message with the generic text, return.
ErrorReply == Twiml(<<MsgError>>)

\* Mutant of FallbackReply: the text of the response is dropped.
FallbackReplyFixed(text) == Twiml(<<MsgCouldNot>>)

\* The else branch of "if image_data:".
FallbackReply(text) ==
    IF text # <<>>
    THEN Twiml(<<MsgNoImagePrefix \o text>>)
    ELSE Twiml(<<MsgCouldNot>>)

\* A request reaches the handler: read the form, strip the body, return the
\* empty reply for a blank body.
Receive(w, bodies) ==
    /\ phase = "serving"
    /\ pc[w] \in { "idle", "done" }
    /\ \E body \in bodies, sender \in Senders :
         LET msg == Strip(FormGetBody(body)) IN
         /\ form_body' = [form_body EXCEPT ![w] = body]
         /\ incoming_msg' = [incoming_msg EXCEPT ![w] = msg]
         /\ from_number' = [from_number EXCEPT ![w] = sender]
         /\ IF msg = <<>>
            THEN /\ pc' = [pc EXCEPT ![w] = "done"]
                 /\ reply' = [reply EXCEPT ![w] = Twiml(<<>>)]
            ELSE /\ pc' = [pc EXCEPT ![w] = "generate"]
                 /\ reply' = [reply EXCEPT ![w] = NoReply]
    /\ route' = [route EXCEPT ![w] = "whatsapp"]
    /\ response' = [response EXCEPT ![w] = NoResponse]
    /\ image_data' = [image_data EXCEPT ![w] = None]
    /\ response_text' = [response_text EXCEPT ![w] = <<>>]
    /\ image_filename' = [image_filename EXCEPT ![w] = <<>>]
    /\ filename' = [filename EXCEPT ![w] = <<>>]
    /\ gemini_calls' = [gemini_calls EXCEPT ![w] = 0]
    /\ twilio_calls' = [twilio_calls EXCEPT ![w] = <<>>]
    /\ saved' = [saved EXCEPT ![w] = <<>>]
    /\ registered' = [registered EXCEPT ![w] = {}]
    /\ UNCHANGED <<files, generated_images, cleanup>>

\* Mutant of GenerateRaises: the call sits outside the try block, so the
\* exception reaches the framework, which answers 500.
GenerateRaisesUncaught(w) ==
    /\ phase = "serving"
    /\ pc[w] = "generate"
    /\ gemini_calls' = [gemini_calls EXCEPT ![w] = @ + 1]
    /\ reply' = [reply EXCEPT ![w] =
                   [kind |-> "text", status |-> 500, messages |-> <<>>, data |-> None]]
    /\ pc' = [pc EXCEPT ![w] = "done"]
    /\ UNCHANGED <<files, generated_images, cleanup, route, locals,
                   twilio_calls, saved, registered>>

\* gemini_client.models.generate_content raises.
GenerateRaises(w) ==
    /\ phase = "serving"
    /\ pc[w] = "generate"
    /\ gemini_calls' = [gemini_calls EXCEPT ![w] = @ + 1]
    /\ reply' = [reply EXCEPT ![w] = ErrorReply]
    /\ pc' = [pc EXCEPT ![w] = "done"]
    /\ UNCHANGED <<files, generated_images, cleanup, route, locals,
                   twilio_calls, saved, registered>>

\* generate_content returns; the parts are walked; without a truthy
\* image_data the fallback reply is returned at once.
Generate(w, responses) ==
    /\ phase = "serving"
    /\ pc[w] = "generate"
    /\ gemini_calls' = [gemini_calls EXCEPT ![w] = @ + 1]
    /\ \E resp \in responses :
         /\ response' = [response EXCEPT ![w] = resp]
         /\ IF resp.shape # "parts"
            THEN \* IndexError on candidates[0], TypeError on iterating None
                 /\ reply' = [reply EXCEPT ![w] = ErrorReply]
                 /\ pc' = [pc EXCEPT ![w] = "done"]
                 /\ UNCHANGED <<image_data, response_text>>
            ELSE LET acc == ParseParts(resp.parts) IN
                 /\ image_data' = [image_data EXCEPT ![w] = acc.image_data]
                 /\ response_text' = [response_text EXCEPT ![w] = acc.response_text]
                 /\ IF Truthy(acc.image_data)
                    THEN /\ pc' = [pc EXCEPT ![w] = "save"]
                         /\ UNCHANGED reply
                    ELSE /\ pc' = [pc EXCEPT ![w] = "done"]
                         /\ reply' = [reply EXCEPT ![w] = FallbackReply(acc.response_text)]
    /\ UNCHANGED <<files, generated_images, cleanup, route, form_body,
                   incoming_msg, from_number, image_filename, filename,
                   twilio_calls, saved, registered>>

\* uuid4 token, Image.open, image.save: the picture is decoded and written
\* PNG-encoded under the new name.
SaveImage(w) ==
    /\ phase = "serving"
    /\ pc[w] = "save"
    /\ CanDecode(The(image_data[w]))
    /\ \E tok \in Tokens :
         LET name == GenName(tok)
             data == EncodePng(Decode(The(image_data[w])))
         IN /\ image_filename' = [image_filename EXCEPT ![w] = name]
            /\ files' = WriteFile(files, name, data)
            /\ saved' = [saved EXCEPT ![w] = Append(@, [name |-> name, data |-> data])]
    /\ pc' = [pc EXCEPT ![w] = "register"]
    /\ UNCHANGED <<generated_images, cleanup, route, form_body, incoming_msg,
                   from_number, response, image_data, response_text, filename,
                   reply, gemini_calls, twilio_calls, registered>>

\* Image.open raises on bytes it cannot identify: nothing is written.
DecodeRaises(w) ==
    /\ phase = "serving"
    /\ pc[w] = "save"
    /\ ~CanDecode(The(image_data[w]))
    /\ \E tok \in Tokens :
         image_filename' = [image_filename EXCEPT ![w] = GenName(tok)]
    /\ reply' = [reply EXCEPT ![w] = ErrorReply]
    /\ pc' = [pc EXCEPT ![w] = "done"]
    /\ UNCHANGED <<files, generated_images, cleanup, route, form_body,
                   incoming_msg, from_number, response, image_data,
                   response_text, filename, effects>>

\* image.save raises (the file cannot be opened, the disk is full): either
\* nothing was written or a truncated file is left under the name.
SaveRaises(w) ==
    /\ phase = "serving"
    /\ pc[w] = "save"
    /\ CanDecode(The(image_data[w]))
    /\ \E tok \in Tokens, opened \in BOOLEAN :
         LET name == GenName(tok) IN
         /\ image_filename' = [image_filename EXCEPT ![w] = name]
         /\ IF opened
            THEN /\ files' = WriteFile(files, name, Truncated)
                 /\ saved' = [saved EXCEPT ![w] =
                                Append(@, [name |-> name, data |-> Truncated])]
            ELSE UNCHANGED <<files, saved>>
    /\ reply' = [reply EXCEPT ![w] = ErrorReply]
    /\ pc' = [pc EXCEPT ![w] = "done"]
    /\ UNCHANGED <<generated_images, cleanup, route, form_body, incoming_msg,
                   from_number, response, image_data, response_text, filename,
                   gemini_calls, twilio_calls, registered>>

\* generated_images[image_filename] = True
Register(w) ==
    /\ phase = "serving"
    /\ pc[w] = "register"
    /\ generated_images' = DictSet(generated_images, image_filename[w])
    /\ registered' = [registered EXCEPT ![w] = @ \cup {image_filename[w]}]
    /\ pc' = [pc EXCEPT ![w] = "send"]
    /\ UNCHANGED <<files, cleanup, route, locals, reply, gemini_calls,
                   twilio_calls, saved>>

\* A call of twilio_client.messages.create: its arguments and how it ended.
MediaMessage(w, result) ==
    [result |-> result,
     body |-> Caption(incoming_msg[w]),
     from_ |-> TwilioFrom,
     to |-> from_number[w],
     media_url |-> <<ImageUrl(image_filename[w])>>]

\* messages.create returns: the success acknowledgment is returned.
SendOk(w) ==
    /\ phase = "serving"
    /\ pc[w] = "send"
    /\ twilio_calls' = [twilio_calls EXCEPT ![w] = Append(@, MediaMessage(w, "sid"))]
    /\ reply' = [reply EXCEPT ![w] = Twiml(<<MsgSuccess>>)]
    /\ pc' = [pc EXCEPT ![w] = "done"]
    /\ UNCHANGED <<files, generated_images, cleanup, route, locals,
                   gemini_calls, saved, registered>>

\* Mutant of SendRaises: the handler undoes the write and the dict entry.
SendRaisesRollback(w) ==
    /\ phase = "serving"
    /\ pc[w] = "send"
    /\ twilio_calls' = [twilio_calls EXCEPT ![w] = Append(@, MediaMessage(w, "raised"))]
    /\ files' = RemoveFile(files, image_filename[w])
    /\ generated_images' =
          [n \in DOMAIN generated_images \ {image_filename[w]} |-> TRUE]
    /\ reply' = [reply EXCEPT ![w] = ErrorReply]
    /\ pc' = [pc EXCEPT ![w] = "done"]
    /\ UNCHANGED <<cleanup, route, locals, gemini_calls, saved, registered>>

\* messages.create raises.
SendRaises(w) ==
    /\ phase = "serving"
    /\ pc[w] = "send"
    /\ twilio_calls' = [twilio_calls EXCEPT ![w] = Append(@, MediaMessage(w, "raised"))]
    /\ reply' = [reply EXCEPT ![w] = ErrorReply]
    /\ pc' = [pc EXCEPT ![w] = "done"]
    /\ UNCHANGED <<files, generated_images, cleanup, route, locals,
                   gemini_calls, saved, registered>>

\* ------------------------------------------------------------------ serve_image
FileReply(data) == [kind |-> "file", status |-> 200, messages |-> <<>>, data |-> Some(data)]
NotFoundReply == [kind |-> "text", status |-> 404, messages |-> <<"Image not found">>, data |-> None]

\* Mutant of SendFile: the except branch returns the text without the 404.
SendFileNo404(fs, name) ==
    IF name \in DOMAIN fs THEN FileReply(fs[name])
    ELSE [NotFoundReply EXCEPT !.status = 200]

\* send_file(filename) of the stored file, or the 404 of the except branch.
SendFile(fs, name) ==
    IF name \in DOMAIN fs THEN FileReply(fs[name]) ELSE NotFoundReply

ServeImage(w) ==
    /\ phase = "serving"
    /\ pc[w] \in { "idle", "done" }
    /\ \E name \in FetchNames :
         /\ filename' = [filename EXCEPT ![w] = name]
         /\ reply' = [reply EXCEPT ![w] = SendFile(files, name)]
    /\ route' = [route EXCEPT ![w] = "images"]
    /\ pc' = [pc EXCEPT ![w] = "done"]
    /\ form_body' = [form_body EXCEPT ![w] = None]
    /\ incoming_msg' = [incoming_msg EXCEPT ![w] = <<>>]
    /\ from_number' = [from_number EXCEPT ![w] = <<>>]
    /\ response' = [response EXCEPT ![w] = NoResponse]
    /\ image_data' = [image_data EXCEPT ![w] = None]
    /\ response_text' = [response_text EXCEPT ![w] = <<>>]
    /\ image_filename' = [image_filename EXCEPT ![w] = <<>>]
    /\ gemini_calls' = [gemini_calls EXCEPT ![w] = 0]
    /\ twilio_calls' = [twilio_calls EXCEPT ![w] = <<>>]
    /\ saved' = [saved EXCEPT ![w] = <<>>]
    /\ registered' = [registered EXCEPT ![w] = {}]
    /\ UNCHANGED <<files, generated_images, cleanup>>

\* ----------------------------------------------------- cleanup_generated_images
\* Mutant of Glob: the hook walks the names of the dict instead.
GlobRegistered(fs) == { n \in DOMAIN fs : n \in DOMAIN generated_images }

\* glob.glob("generated_*.png")
Glob(fs) == { n \in DOMAIN fs : MatchesPattern(n) }

\* The process ends: the atexit hook starts and globs.  No handler runs on;
\* a request in flight is abandoned and the threads' locals are gone.
Shutdown ==
    /\ phase = "serving"
    /\ phase' = "cleanup"
    /\ glob_list' = Glob(files)
    /\ pc' = [w \in Workers |-> "stopped"]
    /\ route' = [w \in Workers |-> "none"]
    /\ form_body' = [w \in Workers |-> None]
    /\ incoming_msg' = [w \in Workers |-> <<>>]
    /\ from_number' = [w \in Workers |-> <<>>]
    /\ response' = [w \in Workers |-> NoResponse]
    /\ image_data' = [w \in Workers |-> None]
    /\ response_text' = [w \in Workers |-> <<>>]
    /\ image_filename' = [w \in Workers |-> <<>>]
    /\ filename' = [w \in Workers |-> <<>>]
    /\ reply' = [w \in Workers |-> NoReply]
    /\ gemini_calls' = [w \in Workers |-> 0]
    /\ twilio_calls' = [w \in Workers |-> <<>>]
    /\ saved' = [w \in Workers |-> <<>>]
    /\ registered' = [w \in Workers |-> {}]
    /\ UNCHANGED <<files, generated_images, removed, cleanup_error>>

\* One iteration of the loop: os.remove succeeds.
CleanupRemove ==
    /\ phase = "cleanup"
    /\ \E name \in glob_list :
         /\ files' = RemoveFile(files, name)
         /\ glob_list' = glob_list \ {name}
         /\ removed' = removed \cup {name}
    /\ UNCHANGED <<generated_images, phase, cleanup_error, pc, route, locals,
                   reply, effects>>

\* os.remove raises: the except clause around the loop logs and the hook ends.
CleanupRaises ==
    /\ phase = "cleanup"
    /\ \E name \in glob_list : cleanup_error' = Some(name)
    /\ phase' = "exited"
    /\ UNCHANGED <<files, generated_images, glob_list, removed, pc, route,
                   locals, reply, effects>>

\* The loop runs out of names.
CleanupDone ==
    /\ phase = "cleanup"
    /\ glob_list = {}
    /\ phase' = "exited"
    /\ UNCHANGED <<files, generated_images, glob_list, removed, cleanup_error,
                   pc, route, locals, reply, effects>>

\* ---------------------------------------------------------- specifications
\* The handler steps of one thread, on requests drawn from the given sets.
Handler(w, bodies, responses) ==
    \/ Receive(w, bodies)
    \/ GenerateRaises(w)
    \/ Generate(w, responses)
    \/ SaveImage(w)
    \/ DecodeRaises(w)
    \/ SaveRaises(w)
    \/ Register(w)
    \/ SendOk(w)
    \/ SendRaises(w)
    \/ ServeImage(w)

AtExit == Shutdown \/ CleanupRemove \/ CleanupRaises \/ CleanupDone

\* One request at a time (a single handler thread), any number in a row.
Next == Handler(1, Bodies, Responses) \/ AtExit
Spec == Init /\ [][Next]_vars

\* Requests handled by concurrent threads; the inputs are the short ones.
ThreadedBodies == { Some(<<" ">>), Some(<<" ", "c", "a", "t", "\t">>) }
ThreadedResponses == { r \in Responses : Len(r.parts) <= 1 }
NextThreaded ==
    \/ \E w \in Workers : Handler(w, ThreadedBodies, ThreadedResponses)
    \/ AtExit
SpecThreaded == Init /\ [][NextThreaded]_vars

\* ------------------------------------------------------------------ claims
Whatsapp(w) == route[w] = "whatsapp"
Returned(w) == Whatsapp(w) /\ pc[w] = "done"

\* The Body field is missing, empty or whitespace only.
IsBlank(body) ==
    body = None \/ \A i \in 1..Len(The(body)) : The(body)[i] \in Whitespace

HasPrefix(m, prefix) ==
    Len(m) >= Len(prefix) /\ SubSeq(m, 1, Len(prefix)) = prefix

\* The three kinds of acknowledgment.
IsSuccessAck(m) == m = MsgSuccess
IsFallbackAck(m) ==
    m = MsgCouldNot \/ (HasPrefix(m, MsgNoImagePrefix) /\ Len(m) > Len(MsgNoImagePrefix))
IsErrorAck(m) == m = MsgError

InFlight(w) == Whatsapp(w) /\ pc[w] \in { "generate", "save", "register", "send" }

\* C1: a request with a non-blank Body always gets a reply of exactly one
\* message, and that message is exactly one of the success acknowledgment, a
\* no-image fallback acknowledgment and the generic error acknowledgment,
\* whatever the generation call, the parsing, the decode/save and the send do;
\* while the server runs a handler past the blank check can always go on to
\* its return (no outcome leaves it without a reply).
C1_ExactlyOneAck ==
    \A w \in Workers :
        /\ (Returned(w) /\ ~IsBlank(form_body[w])) =>
              /\ reply[w].kind = "twiml"
              /\ Len(reply[w].messages) = 1
              /\ LET m == reply[w].messages[1] IN
                 Cardinality({ k \in { "success", "fallback", "error" } :
                                 \/ k = "success" /\ IsSuccessAck(m)
                                 \/ k = "fallback" /\ IsFallbackAck(m)
                                 \/ k = "error" /\ IsErrorAck(m) }) = 1
        /\ (InFlight(w) /\ phase = "serving") =>
              /\ ~IsBlank(form_body[w])
              /\ ENABLED (\/ GenerateRaises(w) \/ Generate(w, Responses)
                          \/ SaveImage(w) \/ DecodeRaises(w) \/ SaveRaises(w)
                          \/ Register(w) \/ SendOk(w) \/ SendRaises(w))

\* C1 witness: a non-blank request came back with the success acknowledgment
\* after a send that returned.
C1_Witness ==
    \E w \in Workers :
        /\ Returned(w) /\ ~IsBlank(form_body[w])
        /\ reply[w].messages = <<MsgSuccess>>
        /\ Len(twilio_calls[w]) = 1

\* C2: a request whose Body is missing, empty or whitespace only returns the
\* empty reply, calls neither the generation service nor the messaging
\* provider, writes no file and adds nothing to generated_images; the step
\* that handles it leaves the directory and the dict as they were.
C2_BlankBody ==
    /\ [] (\A w \in Workers :
             (Whatsapp(w) /\ IsBlank(form_body[w])) =>
                /\ pc[w] = "done"
                /\ reply[w] = Twiml(<<>>)
                /\ gemini_calls[w] = 0
                /\ twilio_calls[w] = <<>>
                /\ saved[w] = <<>>
                /\ registered[w] = {})
    /\ [][\A w \in Workers :
             (Receive(w, Bodies) /\ IsBlank(form_body'[w]))
                => UNCHANGED <<files, generated_images>>]_vars

\* C2 witness: a whitespace-only Body was answered with the empty reply.
C2_Witness ==
    \E w \in Workers :
        /\ Returned(w)
        /\ form_body[w] = Some(<<" ", "\n">>)
        /\ reply[w].messages = <<>>

\* Parts that carry inline data, and the payload of the first of them.
ImageParts(parts) == { i \in 1..Len(parts) : parts[i].inline_data # None }
Min(S) == CHOOSE x \in S : \A y \in S : x <= y
Max(S) == CHOOSE x \in S : \A y \in S : x >= y
FirstImageData(parts) ==
    IF ImageParts(parts) = {} THEN None
    ELSE Some(The(parts[Min(ImageParts(parts))].inline_data).data)

\* Parts the loop takes for images: no text, inline data present.
CapturedParts(parts) ==
    { i \in 1..Len(parts) : parts[i].text = None /\ parts[i].inline_data # None }
LastCapturedData(parts) ==
    IF CapturedParts(parts) = {} THEN None
    ELSE Some(The(parts[Max(CapturedParts(parts))].inline_data).data)

\* The file an image payload is persisted as.
PersistedAs(data) == EncodePng(Decode(The(data)))

\* The request wrote its picture (the save did not raise).
WroteImage(w) ==
    /\ Whatsapp(w)
    /\ saved[w] # <<>>
    /\ saved[w][1].data # Truncated

\* C3: a request that got an image persists exactly one file, under a name
\* no other invocation used, and its one media-send call goes to the
\* request's sender with the URL base + "/images/" + that file name.  Stated
\* for requests whose decode, save and send all went through.
C3_OneUniqueFile ==
    \A w \in Workers :
        /\ (Returned(w) /\ reply[w].messages = <<MsgSuccess>>) =>
              /\ Len(saved[w]) = 1
              /\ saved[w][1].name = image_filename[w]
              /\ Len(twilio_calls[w]) = 1
              /\ twilio_calls[w][1].to = from_number[w]
              /\ twilio_calls[w][1].media_url =
                    << NgrokUrl \o <<"/images/">> \o saved[w][1].name >>
        /\ (WroteImage(w) /\ pc[w] = "register") =>
              \* the names in the dict here are those of other invocations
              saved[w][1].name \notin DOMAIN generated_images

\* C4 as claimed: with several image parts the first payload is the one
\* captured and persisted.  Stated for responses whose image parts all carry
\* a picture that decodes.
C4_FirstImageUsed ==
    \A w \in Workers :
        (Whatsapp(w) /\ response[w].shape = "parts"
            /\ Cardinality(ImageParts(response[w].parts)) >= 2
            /\ \A i \in ImageParts(response[w].parts) :
                   /\ response[w].parts[i].text = None
                   /\ CanDecode(The(response[w].parts[i].inline_data).data)) =>
              /\ image_data[w] = FirstImageData(response[w].parts)
              /\ WroteImage(w) =>
                    saved[w][1].data = PersistedAs(FirstImageData(response[w].parts))

\* C4 as amended: the payload captured is that of the last part without text
\* that carries inline data; when it is non-empty and decodes, the file
\* written is its PNG encoding and the media send points at that file, so the
\* outcome does not depend on any earlier image part.
C4_LastImageUsed ==
    \A w \in Workers :
        (Whatsapp(w) /\ response[w].shape = "parts") =>
            LET last == LastCapturedData(response[w].parts) IN
            /\ image_data[w] = last
            /\ (pc[w] \in { "save", "register", "send" }) => Truthy(last)
            /\ WroteImage(w) =>
                  /\ Len(saved[w]) = 1
                  /\ saved[w][1].data = PersistedAs(last)
            /\ (Returned(w) /\ reply[w].messages = <<MsgSuccess>>) =>
                  /\ WroteImage(w)
                  /\ twilio_calls[w][1].media_url = <<ImageUrl(saved[w][1].name)>>
            /\ (Returned(w) /\ ~Truthy(last)) =>
                  /\ saved[w] = <<>>
                  /\ IsFallbackAck(reply[w].messages[1])

\* C4 witness: two image parts with different pictures; the file holds the
\* second one.
C4_Witness ==
    \E w \in Workers :
        /\ Returned(w)
        /\ response[w].shape = "parts"
        /\ Len(response[w].parts) = 2
        /\ response[w].parts[1].inline_data = Some([data |-> PngA])
        /\ response[w].parts[2].inline_data = Some([data |-> JpgB])
        /\ response[w].parts[1].text = None
        /\ saved[w] = <<[name |-> image_filename[w], data |-> EncodePng("B")]>>
        /\ reply[w].messages = <<MsgSuccess>>

\* The texts of the parts, each followed by a newline, in part order.
RECURSIVE Lines(_)
Lines(parts) ==
    IF parts = <<>> THEN <<>>
    ELSE The(Head(parts).text) \o <<"\n">> \o Lines(Tail(parts))

OnlyText(parts) ==
    /\ Len(parts) >= 1
    /\ \A i \in 1..Len(parts) :
          parts[i].text # None /\ parts[i].inline_data = None
NoTextNoImage(parts) ==
    \A i \in 1..Len(parts) : parts[i].text = None /\ parts[i].inline_data = None

\* C5: a response whose parts are all text parts (at least one) writes no
\* file, adds nothing to the dict, makes no send call, and is acknowledged
\* with the "no image generated" notice followed by the texts in part order;
\* a response whose parts list holds neither text nor image is acknowledged
\* with the fixed "could not generate" notice.
C5_TextOnly ==
    \A w \in Workers :
        (Whatsapp(w) /\ response[w].shape = "parts") =>
            /\ OnlyText(response[w].parts) =>
                  /\ pc[w] = "done"
                  /\ saved[w] = <<>>
                  /\ registered[w] = {}
                  /\ twilio_calls[w] = <<>>
                  /\ reply[w] = Twiml(<<MsgNoImagePrefix \o Lines(response[w].parts)>>)
            /\ NoTextNoImage(response[w].parts) =>
                  /\ pc[w] = "done"
                  /\ saved[w] = <<>>
                  /\ registered[w] = {}
                  /\ twilio_calls[w] = <<>>
                  /\ reply[w] = Twiml(<<MsgCouldNot>>)

\* C5 witness: two different text parts, acknowledged in their order.
C5_Witness ==
    \E w \in Workers :
        /\ Returned(w)
        /\ Len(response[w].parts) = 2
        /\ response[w].parts[1].text = Some(<<"y", "o">>)
        /\ response[w].parts[2].text = Some(<<"h", "i">>)
        /\ OnlyText(response[w].parts)
        /\ reply[w].messages =
              << MsgNoImagePrefix \o <<"y", "o", "\n", "h", "i", "\n">> >>

\* The generation call of this request raised: it was made and bound nothing.
GenerationRaised(w) ==
    Whatsapp(w) /\ gemini_calls[w] = 1 /\ response[w] = NoResponse

\* C6: when the generation call raises, no file is written, nothing is added
\* to the dict, no send call is made, and the reply is the one generic error
\* message.
C6_GenerationRaises ==
    /\ [] (\A w \in Workers :
             GenerationRaised(w) =>
                /\ pc[w] = "done"
                /\ saved[w] = <<>>
                /\ registered[w] = {}
                /\ twilio_calls[w] = <<>>
                /\ reply[w] = Twiml(<<MsgError>>))
    /\ [][\A w \in Workers :
             GenerateRaises(w) => UNCHANGED <<files, generated_images>>]_vars

\* C6 witness: a non-blank request whose generation call raised.
C6_Witness ==
    \E w \in Workers :
        /\ GenerationRaised(w)
        /\ ~IsBlank(form_body[w])
        /\ reply[w].messages = <<MsgError>>

\* The send call of this request raised.
SendRaised(w) ==
    /\ Whatsapp(w)
    /\ twilio_calls[w] # <<>>
    /\ twilio_calls[w][Len(twilio_calls[w])].result = "raised"

\* C7: when the send raises after the file was written and recorded, nothing
\* is undone: the name is in the dict, the file is on disk and the image
\* endpoint serves it, the success acknowledgment is not given, and the
\* reply is the same generic error message as for a generation failure.
C7_SendRaises ==
    \A w \in Workers :
        SendRaised(w) =>
            /\ pc[w] = "done"
            /\ Len(saved[w]) = 1
            /\ reply[w] = Twiml(<<MsgError>>)
            /\ reply[w].messages # <<MsgSuccess>>
            /\ registered[w] = { saved[w][1].name }
            /\ saved[w][1].name \in DOMAIN generated_images
            /\ saved[w][1].name \in DOMAIN files
            /\ SendFile(files, saved[w][1].name).status = 200

\* C7 witness: the send raised; file and dict entry are there.
C7_Witness ==
    \E w \in Workers :
        /\ SendRaised(w)
        /\ phase = "serving"
        /\ image_filename[w] \in DOMAIN files
        /\ image_filename[w] \in DOMAIN generated_images
        /\ reply[w].messages = <<MsgError>>

Matching(fs) == { n \in DOMAIN fs : MatchesPattern(n) }

\* C9 as claimed: the hook deletes every matching file, in the dict or not,
\* and when one removal fails the other matching files are still deleted.
C9_AllOthersDeleted ==
    phase = "exited" => Matching(files) \subseteq cleanup_error

\* C9 as amended: the hook visits the files matching generated_*.png, in the
\* dict or not, and deletes them one by one; it never touches the dict or a
\* file that does not match; no failure propagates (the hook always ends);
\* when no removal fails no matching file is left, and when a removal fails
\* the failure is logged and the loop stops, so that file and every matching
\* file not yet visited stay on disk.
C9_CleanupStopsAtFailure ==
    /\ [] (phase # "serving" =>
             /\ AppPy \in DOMAIN files
             /\ removed \cap DOMAIN files = {}
             /\ Matching(files) = glob_list
             /\ (phase = "cleanup") => ENABLED (CleanupRemove \/ CleanupDone)
             /\ (phase = "exited" /\ cleanup_error = None) => Matching(files) = {}
             /\ (phase = "exited" /\ cleanup_error # None) =>
                   /\ cleanup_error \subseteq glob_list
                   /\ glob_list \subseteq DOMAIN files)
    /\ [][phase # "serving" => generated_images' = generated_images]_vars
    /\ [][phase = "serving" /\ phase' = "cleanup" =>
             glob_list' = Matching(files)]_vars

\* C9 witness: a removal failed after the hook had deleted a file that was
\* not in the dict; the file that failed and another matching file are
\* still on disk.
C9_Witness ==
    /\ phase = "exited"
    /\ cleanup_error # None
    /\ LeftoverName \in removed
    /\ LeftoverName \notin DOMAIN generated_images
    /\ cleanup_error \subseteq DOMAIN files
    /\ Cardinality(Matching(files)) >= 2

\* C10: for concurrent requests that each got an image: each wrote a file of
\* its own (the names differ), each media send carries the URL of the
\* request's own file and goes to its own sender, a request whose steps all
\* went through gets the success acknowledgment, and the dict holds the name
\* of every request that recorded one (entries are never lost).
C10_ConcurrentRequests ==
    /\ \A w \in Workers :
          /\ (WroteImage(w) /\ twilio_calls[w] # <<>>) =>
                /\ twilio_calls[w][1].to = from_number[w]
                /\ twilio_calls[w][1].media_url = <<ImageUrl(saved[w][1].name)>>
          /\ (Returned(w) /\ twilio_calls[w] # <<>>
                /\ twilio_calls[w][1].result = "sid") =>
                reply[w] = Twiml(<<MsgSuccess>>)
          /\ (WroteImage(w) /\ pc[w] \in { "send", "done" }) =>
                saved[w][1].name \in DOMAIN generated_images
    /\ \A w1, w2 \in Workers :
          (w1 # w2 /\ WroteImage(w1) /\ WroteImage(w2)) =>
              saved[w1][1].name # saved[w2][1].name

====
